---- MODULE Spec2Model ----
(***************************************************************************)
(* A model of the detection engine and the report renderer of the poker    *)
(* podcast hand grabber: PokerHandAnalyzer.detect_hands and                *)
(* PokerHandAnalyzer.generate_report of src/src/cli.py.                    *)
(*                                                                         *)
(* Texts are strings, and a lower-cased text is the sequence of its        *)
(* characters; a position in a text is the number of characters before it  *)
(* (0 .. Len(text)).  The regular expressions of the pattern               *)
(* catalog are values interpreted by Ends, which follows the backtracking  *)
(* order of Python's re module (first alternative first, greedy            *)
(* repetition), so that re.search and re.findall are computed as the code  *)
(* computes them.                                                          *)
(***************************************************************************)
EXTENDS Integers, Sequences, FiniteSets, TLC

VARIABLES
    transcript_data,  \* the transcript handed to the analyzer
    status,           \* of the last detect_hands call: "idle", "returned", "raised"
    hands_detected,   \* the list detect_hands returned
    error,            \* the exception the last call raised
    scores,           \* the four scores the loop computed for each segment
    origin,           \* origin[k]: the segment hands_detected[k] was built from
    files,            \* durable storage: path -> file
    report_file,      \* what generate_report returned ("" before any call)
    first_call,       \* the outcome of the first detect_hands call, kept for comparison
    episode           \* the directory and the audio file of the episode at hand

vars == <<transcript_data, status, hands_detected, error, scores, origin, files,
          report_file, first_call, episode>>

----------------------------------------------------------------------------
(* Characters and strings.  A character is a string: the character         *)
(* itself, or, for a character that no string constant can hold, its name  *)
(* "U+" and four hexadecimal digits.  A text is a string; a lower-cased    *)
(* text is the sequence of its characters.                                 *)
(*                                                                         *)
(* A string here is a sequence of 16-bit units while a Python str is a     *)
(* sequence of characters; a character beyond U+FFFF takes two units, a    *)
(* lead unit and a trail unit.  Characters(s) puts the two together, so    *)
(* that positions in a text, the length of a text and the character a      *)
(* pattern consumes are those of the Python str.                           *)

Unit(s, i) == SubSeq(s, i, i)

(* one character for each lead unit a string constant can hold *)
Supplementary ==
    "𰂀𰒀𰢀𰲀𱂀𱒀𱢀𱲀𲂀𲒀𲢀𲲀𳂀𳒀𳢀𳲀𴂀𴒀𴢀𴲀𵂀𵒀𵢀𵲀𶂀𶒀𶢀𶲀𷂀𷒀𷢀𷲀𸂀𸒀𸢀𸲀𹂀𹒀𹢀𹲀𺂀𺒀𺢀𺲀𻂀𻒀𻢀𻲀𼂀𼒀𼢀𼲀𽂀𽒀𽢀𽲀𾂀𾒀𾢀𾲀𿂀𿒀𿢀𿲀" \o
    "񀂀񀒀񀢀񀲀񁂀񁒀񁢀񁲀񂂀񂒀񂢀񂲀񃂀񃒀񃢀񃲀񄂀񄒀񄢀񄲀񅂀񅒀񅢀񅲀񆂀񆒀񆢀񆲀񇂀񇒀񇢀񇲀񈂀񈒀񈢀񈲀񉂀񉒀񉢀񉲀񊂀񊒀񊢀񊲀񋂀񋒀񋢀񋲀񌂀񌒀񌢀񌲀񍂀񍒀񍢀񍲀񎂀񎒀񎢀񎲀񏂀񏒀񏢀񏲀" \o
    "񰂀񰒀񰢀񰲀񱂀񱒀񱢀񱲀񲂀񲒀񲢀񲲀񳂀񳒀񳢀񳲀񴂀񴒀񴢀񴲀񵂀񵒀񵢀񵲀񶂀񶒀񶢀񶲀񷂀񷒀񷢀񷲀񸂀񸒀񸢀񸲀񹂀񹒀񹢀񹲀񺂀񺒀񺢀񺲀񻂀񻒀񻢀񻲀񼂀񼒀񼢀񼲀񽂀񽒀񽢀񽲀񾂀񾒀񾢀񾲀񿂀񿒀񿢀񿲀" \o
    "򀂀򀒀򀢀򀲀򁂀򁒀򁢀򁲀򂂀򂒀򂢀򂲀򃂀򃒀򃢀򃲀򄂀򄒀򄢀򄲀򅂀򅒀򅢀򅲀򆂀򆒀򆢀򆲀򇂀򇒀򇢀򇲀򈂀򈒀򈢀򈲀򉂀򉒀򉢀򉲀򊂀򊒀򊢀򊲀򋂀򋒀򋢀򋲀򌂀򌒀򌢀򌲀򍂀򍒀򍢀򍲀򎂀򎒀򎢀򎲀򏂀򏒀򏢀򏲀" \o
    "򰂀򰒀򰢀򰲀򱂀򱒀򱢀򱲀򲂀򲒀򲢀򲲀򳂀򳒀򳢀򳲀򴂀򴒀򴢀򴲀򵂀򵒀򵢀򵲀򶂀򶒀򶢀򶲀򷂀򷒀򷢀򷲀򸂀򸒀򸢀򸲀򹂀򹒀򹢀򹲀򺂀򺒀򺢀򺲀򻂀򻒀򻢀򻲀򼂀򼒀򼢀򼲀򽂀򽒀򽢀򽲀򾂀򾒀򾢀򾲀򿂀򿒀򿢀򿲀" \o
    "󀂀󀒀󀢀󀲀󁂀󁒀󁢀󁲀󂂀󂒀󂢀󂲀󃂀󃒀󃢀󃲀󄂀󄒀󄢀󄲀󅂀󅒀󅢀󅲀󆂀󆒀󆢀󆲀󇂀󇒀󇢀󇲀󈂀󈒀󈢀󈲀󉂀󉒀󉢀󉲀󊂀󊒀󊢀󊲀󋂀󋒀󋢀󋲀󌂀󌒀󌢀󌲀󍂀󍒀󍢀󍲀󎂀󎒀󎢀󎲀󏂀󏒀󏢀󏲀" \o
    "󰂀󰒀󰢀󰲀󱂀󱒀󱢀󱲀󲂀󲒀󲢀󲲀󳂀󳒀󳢀󳲀󴂀󴒀󴢀󴲀󵂀󵒀󵢀󵲀󶂀󶒀󶢀󶲀󷂀󷒀󷢀󷲀󸂀󸒀󸢀󸲀󹂀󹒀󹢀󹲀󺂀󺒀󺢀󺲀󻂀󻒀󻢀󻲀󼂀󼒀󼢀󼲀󽂀󽒀󽢀󽲀󾂀󾒀󾢀󾲀󿂀󿒀󿢀󿲀" \o
    "􀂀􀒀􀢀􀲀􁂀􁒀􁢀􁲀􂂀􂒀􂢀􂲀􃂀􃒀􃢀􃲀􄂀􄒀􄢀􄲀􅂀􅒀􅢀􅲀􆂀􆒀􆢀􆲀􇂀􇒀􇢀􇲀􈂀􈒀􈢀􈲀􉂀􉒀􉢀􉲀􊂀􊒀􊢀􊲀􋂀􋒀􋢀􋲀􌂀􌒀􌢀􌲀􍂀􍒀􍢀􍲀􎂀􎒀􎢀􎲀􏂀􏒀􏢀􏲀"

LeadUnits == {Unit(Supplementary, 2 * k - 1) : k \in 1..(Len(Supplementary) \div 2)}

(* the characters in the units lo .. hi of s, which begin and end with a   *)
(* character, one after another                                            *)
CharactersIn[s \in STRING, lo \in Nat, hi \in Nat] ==
    IF lo > hi THEN <<>>
    ELSE IF lo = hi \/ (hi = lo + 1 /\ Unit(s, lo) \in LeadUnits) THEN <<SubSeq(s, lo, hi)>>
    ELSE LET mid == (lo + hi) \div 2
             cut == IF Unit(s, mid) \in LeadUnits THEN mid - 1 ELSE mid
         IN  CharactersIn[s, lo, cut] \o CharactersIn[s, cut + 1, hi]

(* list(s): the characters of s, one after another *)
Characters(s) == CharactersIn[s, 1, Len(s)]

(* The tables below list, among the characters a string constant can       *)
(* hold, those that Python puts in each class: str.isspace (which is also  *)
(* \s of a str pattern and what str.strip removes), the decimal digits     *)
(* (\d), the letters str.lower changes with their lower-case forms, and    *)
(* the cased and case-ignorable characters that decide the lower-case      *)
(* form of a capital sigma.  No character beyond U+FFFF that a string      *)
(* constant can hold is in any of the classes, so that every character of  *)
(* a table is a single unit; so is every character of the words of the     *)
(* patterns.                                                               *)

(* the characters of a table or word w, one after another *)
Units(w) == [k \in 1..Len(w) |-> Unit(w, k)]

(* the characters of a table *)
Chars(alphabet) == {Unit(alphabet, k) : k \in 1..Len(alphabet)}

UpperLetters ==
    "ABCDEFGHIJKLMNOPQRSTUVWXYZÀÁÂÃÄÅÆÇÈÉÊËÌÍÎÏÐÑÒÓÔÕÖØÙÚÛÜÝÞƂƄƇƋƎƑƘƠ" \o
    "ƢƤƦƧƩƬƮƯƱƲƳƵƷƸƼǄǅǇǈǊǋǍǏǑǓǕǗǙǛǞǠǢǤǦǨǪǬǮǱǲǴǶǷǸǺǼǾΆΈΉΊΌΎΏΑΒΓΔΕΖΗΘΙΚ" \o
    "ΛΜΝΞΟΠΡΤΥΦΧΨΩΪΫϏϘϚϜϞϠϢϤϦϨϪϬϮϴϷϹϺҀҊҌҎҐҒҔҖҘҚҜҞҠҢҤҦҨҪҬҮҰҲҴҶҸҺҼҾӀӁӃӅ" \o
    "ӇӉӋӍӐӒӔӖӘӚӜӞӠӢӤӦӨӪӬӮӰӲӴӶӸӺӼӾᎰᎱᎲᎳᎴᎵᎶᎷᎸᎹᎺᎻᎼᎽᎾᎿᏀᏁᏂᏃᏄᏅᏆᏇᏈᏉᏊᏋᏌᏍᏎᏏᏐᏑᏒᏓ" \o
    "ᏔᏕᏖᏗᏘᏙᏚᏛᏜᏝᏞᏟᏠᏡᏢᏣᏤᏥᏦᏧᏨᏩᏪᏫᏬᏭᏮᏯᏰᏱᏲᏳᏴᏵᲐᲑᲒᲓᲔᲕᲖᲗᲘᲙᲚᲛᲜᲝᲞᲟᲠᲡᲢᲣᲤᲥᲦᲧᲨᲩᲪᲫᲬᲭ" \o
    "ᲮᲯᲰᲱᲲᲳᲴᲵᲶᲷᲸᲹᲺᲽᲾᲿẀẂẄẆẈẊẌẎẐẒẔẞẠẢẤẦẨẪẬẮẰẲẴẶẸẺẼẾỀỂỄỆỈỊỌỎỐỒỔỖỘỚỜỞỠỢỤỦ" \o
    "ỨỪỬỮỰỲỴỶỸỺỼỾᾈᾉᾊᾋᾌᾍᾎᾏᾘᾙᾚᾛᾜᾝᾞᾟᾨᾩᾪᾫᾬᾭᾮᾯᾸᾹᾼῌῘῙῨῩῬῼↃⒶⒷⒸⒹⒺⒻⒼⒽⒾⒿⓀⓁⓂⓃⓄⓅⓆ" \o
    "ⓇⓈⓉⓊⓋⓌⓍⓎⓏⲀⲂⲄⲆⲈⲊⲌⲎⲐⲒⲔⲖⲘⲚⲜⲞⲠⲢⲤⲦⲨⲪⲬⲮⲰⲲⲴⲶⲸⲺⲼⲾⳀⳂⳄⳆⳈⳊⳌⳎⳐⳒⳔⳖⳘⳚⳜⳞⳠⳢⳫⳭⳲꚀꚂ" \o
    "ꚄꚆꚈꚊꚌꚎꚐꚒꚔꚖꚘꚚꞀꞂꞄꞆꞋꞐꞒꞖꞘꞚꞜꞞꞠꞢꞤꞦꞨꞰꞱꞲꞴꞶꞸꞺꞼꞾꟀꟂꟄꟅꟆꟇꟉꟐꟖꟘꟵƁƆƉƊƏƐƓƔƖƗƜƝƟϽϾ" \o
    "ϿႠႡႢႣႤႥႦႧႨႩႪႫႬႭႮႯႰႱႲႳႴႵႶႷႸႹႺႻႼႽႾႿჀჁჂჃჄჅჇჍᎠᎡᎢᎣᎤᎥᎦᎧᎨᎩᎪᎫᎬᎭᎮᎯᾺΆῈΈῊΉῚ" \o
    "ΊῪΎῸΌῺΏꞍꞪꞫꞬꞭꞮꞳ"

(* The lower-case forms of the first letters of UpperLetters, in the same  *)
(* order, and then the names of the lower-case forms of the others.        *)
LowerLetters ==
    "abcdefghijklmnopqrstuvwxyzàáâãäåæçèéêëìíîïðñòóôõöøùúûüýþƃƅƈƌǝƒƙơ" \o
    "ƣƥʀƨʃƭʈưʊʋƴƶʒƹƽǆǆǉǉǌǌǎǐǒǔǖǘǚǜǟǡǣǥǧǩǫǭǯǳǳǵƕƿǹǻǽǿάέήίόύώαβγδεζηθικ" \o
    "λμνξοπρτυφχψωϊϋϗϙϛϝϟϡϣϥϧϩϫϭϯθϸϲϻҁҋҍҏґғҕҗҙқҝҟҡңҥҧҩҫҭүұҳҵҷҹһҽҿӏӂӄӆ" \o
    "ӈӊӌӎӑӓӕӗәӛӝӟӡӣӥӧөӫӭӯӱӳӵӷӹӻӽӿꮀꮁꮂꮃꮄꮅꮆꮇꮈꮉꮊꮋꮌꮍꮎꮏꮐꮑꮒꮓꮔꮕꮖꮗꮘꮙꮚꮛꮜꮝꮞꮟꮠꮡꮢꮣ" \o
    "ꮤꮥꮦꮧꮨꮩꮪꮫꮬꮭꮮꮯꮰꮱꮲꮳꮴꮵꮶꮷꮸꮹꮺꮻꮼꮽꮾꮿᏸᏹᏺᏻᏼᏽაბგდევზთიკლმნოპჟრსტუფქღყშჩცძწჭ" \o
    "ხჯჰჱჲჳჴჵჶჷჸჹჺჽჾჿẁẃẅẇẉẋẍẏẑẓẕßạảấầẩẫậắằẳẵặẹẻẽếềểễệỉịọỏốồổỗộớờởỡợụủ" \o
    "ứừửữựỳỵỷỹỻỽỿᾀᾁᾂᾃᾄᾅᾆᾇᾐᾑᾒᾓᾔᾕᾖᾗᾠᾡᾢᾣᾤᾥᾦᾧᾰᾱᾳῃῐῑῠῡῥῳↄⓐⓑⓒⓓⓔⓕⓖⓗⓘⓙⓚⓛⓜⓝⓞⓟⓠ" \o
    "ⓡⓢⓣⓤⓥⓦⓧⓨⓩⲁⲃⲅⲇⲉⲋⲍⲏⲑⲓⲕⲗⲙⲛⲝⲟⲡⲣⲥⲧⲩⲫⲭⲯⲱⲳⲵⲷⲹⲻⲽⲿⳁⳃⳅⳇⳉⳋⳍⳏⳑⳓⳕⳗⳙⳛⳝⳟⳡⳣⳬⳮⳳꚁꚃ" \o
    "ꚅꚇꚉꚋꚍꚏꚑꚓꚕꚗꚙꚛꞁꞃꞅꞇꞌꞑꞓꞗꞙꞛꞝꞟꞡꞣꞥꞧꞩʞʇʝꞵꞷꞹꞻꞽꞿꟁꟃꞔʂᶎꟈꟊꟑꟗꟙꟶ"

LowerLetterNames == <<
    "U+0253", "U+0254", "U+0256", "U+0257", "U+0259", "U+025B", "U+0260", "U+0263",
    "U+0269", "U+0268", "U+026F", "U+0272", "U+0275", "U+037B", "U+037C", "U+037D",
    "U+2D00", "U+2D01", "U+2D02", "U+2D03", "U+2D04", "U+2D05", "U+2D06", "U+2D07",
    "U+2D08", "U+2D09", "U+2D0A", "U+2D0B", "U+2D0C", "U+2D0D", "U+2D0E", "U+2D0F",
    "U+2D10", "U+2D11", "U+2D12", "U+2D13", "U+2D14", "U+2D15", "U+2D16", "U+2D17",
    "U+2D18", "U+2D19", "U+2D1A", "U+2D1B", "U+2D1C", "U+2D1D", "U+2D1E", "U+2D1F",
    "U+2D20", "U+2D21", "U+2D22", "U+2D23", "U+2D24", "U+2D25", "U+2D27", "U+2D2D",
    "U+AB70", "U+AB71", "U+AB72", "U+AB73", "U+AB74", "U+AB75", "U+AB76", "U+AB77",
    "U+AB78", "U+AB79", "U+AB7A", "U+AB7B", "U+AB7C", "U+AB7D", "U+AB7E", "U+AB7F",
    "U+1F70", "U+1F71", "U+1F72", "U+1F73", "U+1F74", "U+1F75", "U+1F76", "U+1F77",
    "U+1F7A", "U+1F7B", "U+1F78", "U+1F79", "U+1F7C", "U+1F7D", "U+0265", "U+0266",
    "U+025C", "U+0261", "U+026C", "U+026A", "U+AB53"
>>

LowerForms == Units(LowerLetters) \o LowerLetterNames

Digits ==
    "0123456789۰۱۲۳۴۵۶۷۸۹߀߁߂߃߄߅߆߇߈߉০১২৩৪৫৬৭৮৯૦૧૨૩૪૫૬૭૮૯௦௧௨௩௪௫௬௭௮௯೦೧೨೩" \o
    "೪೫೬೭೮೯෦෧෨෩෪෫෬෭෮෯໐໑໒໓໔໕໖໗໘໙႐႑႒႓႔႕႖႗႘႙០១២៣៤៥៦៧៨៩᧐᧑᧒᧓᧔᧕᧖᧗᧘᧙᪀᪁᪂᪃᪄᪅᪆᪇" \o
    "᪈᪉᪐᪑᪒᪓᪔᪕᪖᪗᪘᪙᮰᮱᮲᮳᮴᮵᮶᮷᮸᮹꣐꣑꣒꣓꣔꣕꣖꣗꣘꣙꧐꧑꧒꧓꧔꧕꧖꧗꧘꧙꧰꧱꧲꧳꧴꧵꧶꧷꧸꧹꯰꯱꯲꯳꯴꯵꯶꯷꯸꯹"

Whitespace == " \t\n\r\f  "

(* cased and not case-ignorable *)
Cased ==
    "ABCDEFGHIJKLMNOPQRSTUVWXYZabcdefghijklmnopqrstuvwxyzªµºÀÁÂÃÄÅÆÇÈ" \o
    "ÉÊËÌÍÎÏÐÑÒÓÔÕÖØÙÚÛÜÝÞßàáâãäåæçèéêëìíîïðñòóôõöøùúûüýþÿƀƁƂƃƄƅƆƇƈƉƊ" \o
    "ƋƌƍƎƏƐƑƒƓƔƕƖƗƘƙƚƛƜƝƞƟƠơƢƣƤƥƦƧƨƩƪƫƬƭƮƯưƱƲƳƴƵƶƷƸƹƺƼƽƾƿǄǅǆǇǈǉǊǋǌǍǎǏ" \o
    "ǐǑǒǓǔǕǖǗǘǙǚǛǜǝǞǟǠǡǢǣǤǥǦǧǨǩǪǫǬǭǮǯǰǱǲǳǴǵǶǷǸǹǺǻǼǽǾǿʀʁʂʃʄʅʆʇʈʉʊʋʌʍʎʏ" \o
    "ʐʑʒʓʕʖʗʘʙʚʛʜʝʞʟʠʡʢʣʤʥʦʧʨʩʪʫʬʭʮʯΆΈΉΊΌΎΏΐΑΒΓΔΕΖΗΘΙΚΛΜΝΞΟΠΡΣΤΥΦΧΨΩΪ" \o
    "ΫάέήίΰαβγδεζηθικλμνξοπρςστυφχψωϊϋόύώϏϐϑϒϓϔϕϖϗϘϙϚϛϜϝϞϟϠϡϢϣϤϥϦϧϨϩϪ" \o
    "ϫϬϭϮϯϰϱϲϳϴϵϷϸϹϺϻϼϽϾϿҀҁҊҋҌҍҎҏҐґҒғҔҕҖҗҘҙҚқҜҝҞҟҠҡҢңҤҥҦҧҨҩҪҫҬҭҮүҰұҲҳ" \o
    "ҴҵҶҷҸҹҺһҼҽҾҿӀӁӂӃӄӅӆӇӈӉӊӋӌӍӎӏӐӑӒӓӔӕӖӗӘәӚӛӜӝӞӟӠӡӢӣӤӥӦӧӨөӪӫӬӭӮӯӰӱӲӳ" \o
    "ӴӵӶӷӸӹӺӻӼӽӾӿրցւփքօֆևֈႠႡႢႣႤႥႦႧႨႩႪႫႬႭႮႯႰႱႲႳႴႵႶႷႸႹႺႻႼႽႾႿჀჁჂჃჄჅჇჍაბგ" \o
    "დევზთიკლმნოპჟრსტუფქღყშჩცძწჭხჯჰჱჲჳჴჵჶჷჸჹჺჽჾჿᎠᎡᎢᎣᎤᎥᎦᎧᎨᎩᎪᎫᎬᎭᎮᎯᎰᎱᎲᎳᎴ" \o
    "ᎵᎶᎷᎸᎹᎺᎻᎼᎽᎾᎿᏀᏁᏂᏃᏄᏅᏆᏇᏈᏉᏊᏋᏌᏍᏎᏏᏐᏑᏒᏓᏔᏕᏖᏗᏘᏙᏚᏛᏜᏝᏞᏟᏠᏡᏢᏣᏤᏥᏦᏧᏨᏩᏪᏫᏬᏭᏮᏯᏰᏱᏲᏳᏴ" \o
    "ᏵᏸᏹᏺᏻᏼᏽᲀᲁᲂᲃᲄᲅᲆᲇᲈᲐᲑᲒᲓᲔᲕᲖᲗᲘᲙᲚᲛᲜᲝᲞᲟᲠᲡᲢᲣᲤᲥᲦᲧᲨᲩᲪᲫᲬᲭᲮᲯᲰᲱᲲᲳᲴᲵᲶᲷᲸᲹᲺᲽᲾᲿᶀᶁ" \o
    "ᶂᶃᶄᶅᶆᶇᶈᶉᶊᶋᶌᶍᶎᶏᶐᶑᶒᶓᶔᶕᶖᶗᶘᶙᶚẀẁẂẃẄẅẆẇẈẉẊẋẌẍẎẏẐẑẒẓẔẕẖẗẘẙẚẛẜẝẞẟẠạẢảẤấẦ" \o
    "ầẨẩẪẫẬậẮắẰằẲẳẴẵẶặẸẹẺẻẼẽẾếỀềỂểỄễỆệỈỉỊịỌọỎỏỐốỒồỔổỖỗỘộỚớỜờỞởỠỡỢợỤụỦ" \o
    "ủỨứỪừỬửỮữỰựỲỳỴỵỶỷỸỹỺỻỼỽỾỿᾀᾁᾂᾃᾄᾅᾆᾇᾈᾉᾊᾋᾌᾍᾎᾏᾐᾑᾒᾓᾔᾕᾖᾗᾘᾙᾚᾛᾜᾝᾞᾟᾠᾡᾢᾣᾤᾥᾦ" \o
    "ᾧᾨᾩᾪᾫᾬᾭᾮᾯᾰᾱᾲᾳᾴᾶᾷᾸᾹᾺΆᾼιῂῃῄῆῇῈΈῊΉῌῐῑῒΐῖῗῘῙῚΊῠῡῢΰῤῥῦῧῨῩῪΎῬῲῳῴῶῷῸΌῺΏ" \o
    "ῼↃↄⒶⒷⒸⒹⒺⒻⒼⒽⒾⒿⓀⓁⓂⓃⓄⓅⓆⓇⓈⓉⓊⓋⓌⓍⓎⓏⓐⓑⓒⓓⓔⓕⓖⓗⓘⓙⓚⓛⓜⓝⓞⓟⓠⓡⓢⓣⓤⓥⓦⓧⓨⓩⲀⲁⲂⲃⲄⲅⲆⲇⲈ" \o
    "ⲉⲊⲋⲌⲍⲎⲏⲐⲑⲒⲓⲔⲕⲖⲗⲘⲙⲚⲛⲜⲝⲞⲟⲠⲡⲢⲣⲤⲥⲦⲧⲨⲩⲪⲫⲬⲭⲮⲯⲰⲱⲲⲳⲴⲵⲶⲷⲸⲹⲺⲻⲼⲽⲾⲿⳀⳁⳂⳃⳄⳅⳆⳇⳈ" \o
    "ⳉⳊⳋⳌⳍⳎⳏⳐⳑⳒⳓⳔⳕⳖⳗⳘⳙⳚⳛⳜⳝⳞⳟⳠⳡⳢⳣⳤⳫⳬⳭⳮⳲⳳꚀꚁꚂꚃꚄꚅꚆꚇꚈꚉꚊꚋꚌꚍꚎꚏꚐꚑꚒꚓꚔꚕꚖꚗꚘꚙꚚꚛꞀꞁ" \o
    "ꞂꞃꞄꞅꞆꞇꞋꞌꞍꞎꞐꞑꞒꞓꞔꞕꞖꞗꞘꞙꞚꞛꞜꞝꞞꞟꞠꞡꞢꞣꞤꞥꞦꞧꞨꞩꞪꞫꞬꞭꞮꞯꞰꞱꞲꞳꞴꞵꞶꞷꞸꞹꞺꞻꞼꞽꞾꞿꟀꟁꟂꟃꟄꟅ" \o
    "ꟆꟇꟈꟉꟊꟐꟑꟓꟕꟖꟗꟘꟙꟵꟶꟺꮀꮁꮂꮃꮄꮅꮆꮇꮈꮉꮊꮋꮌꮍꮎꮏꮐꮑꮒꮓꮔꮕꮖꮗꮘꮙꮚꮛꮜꮝꮞꮟꮠꮡꮢꮣꮤꮥꮦꮧꮨꮩꮪꮫꮬꮭꮮꮯ" \o
    "ꮰꮱꮲꮳꮴꮵꮶꮷꮸꮹꮺꮻꮼꮽꮾꮿ"

CaseIgnorable ==
    "'.:^¨­¯´·¸ʰʱʲʳʴʵʶʷʸʹʺʻʼʽʾʿˀˁ˂˃˄˅ˆˇˈˉˊˋˌˍˎˏːˑ˒˓˔˕˖˗˘˙˚˛˜˝˞˟ˠˡˢˣˤ˥" \o
    "˦˧˨˩˪˫ˬ˭ˮ˯˰˱˲˳˴˵˶˷˸˹˺˻˼˽˾˿΄΅·҃҄҅҆҇҈҉֑֖֛֢֣֤֥֦֧֪֚֒֓֔֕֗֘֙֜֝֞֟֠֡֨֩֫֬" \o
    "ְֱֲֳִֵֶַָׇֹֺֻּֽֿׁׂׅ֭֮֯ׄ״ۖۗۘۙۚۛۜ۝ۣ۟۠ۡۢۤۥۦ۪ۭۧۨ۫۬ަާިީުޫެޭޮޯް߫߬߭߮߯߰߱" \o
    "߲߳ߴߵߺ߽࢈࢐࢑࢙࢚࢛࢘࢜࢝࢞࢟ࣉ࣏࣐࣑࣒࣓࣊࣋࣌࣍࣎ࣔࣕࣖࣗࣘࣙࣚࣛࣜࣝࣞࣟ࣠࣡࣢ࣰࣱࣲࣣࣦࣩ࣭࣮࣯ࣶࣤࣥࣧࣨ࣪࣫࣬ࣳࣴࣵࣷ" \o
    "ࣹࣺࣸࣻࣼࣽࣾࣿঁ়ুূৃৄ্ৢৣ৾ઁં઼ુૂૃૄૅેૈ્ૢૣૺૻૼ૽૾૿ஂீ்ಁ಼ಿೆೌ್ೢೣඁ්ිීුූັິີຶື຺ຸູົຼ" \o
    "ໆ່້໊໋໌ໍ྄ཱྀྀྂྃ྆྇ྍྎྏྐྑྒྒྷྔྕྖྗྙྚྛྜྜྷྞྟྠྡྡྷྣྤྥྦྦྷྨྩྪྫྫྷྭྮྯྰྱྲླྴྵྶྷྸྐྵྺྻྼ࿆ႂႅ" \o
    "ႆႍႝჼ឴឵ិីឹឺុូួំ៉៊់៌៍៎៏័៑្៓ៗ៝ᢅᢆᢩᪧ᪵᪶᪷᪸᪹᪺᪽᪰᪱᪲᪳᪴᪻᪼᪾ᪿᫀ᫃᫄᫊᫁᫂᫅᫆᫇᫈᫉᫋ᫌᫍᫎᮀᮁ" \o
    "ᮢᮣᮤᮥᮨᮩ᮫ᮬᮭ᯦ᯨᯩᯭᯯᯰᯱ᳔᳢᳣᳤᳥᳦᳧᳨᳕᳖᳗᳘᳙᳜᳝᳞᳟᳭᳐᳑᳒᳚᳛᳠᳴᳸᳹ᶛᶜᶝᶞᶟᶠᶡᶢᶣᶤᶥᶦᶧᶨᶩᶪᶫᶬᶭᶮᶯ" \o
    "ᶰᶱᶲᶳᶴᶵᶶᶷᶸᶹᶺᶻᶼᶽᶾᶿ᷐᷎᷂᷊᷏᷀᷁᷃᷄᷅᷆᷇᷈᷉᷋᷌᷑᷒ᷓᷔᷕᷖᷗᷘᷙᷚᷛᷜᷝᷞᷟᷠᷡᷢᷣᷤᷥᷦᷧᷨᷩᷪᷫᷬᷭᷮᷯ᷍" \o
    "᷺᷹᷽᷿᷷᷸ᷰᷱᷲᷳᷴ᷵᷻᷾᷶᷼᾽᾿῀῁῍῎῏῝῞῟῭΅`´῾ₐₑₒₓₔₕₖₗₘₙₚₛₜ⃒⃓⃘⃙⃚⃐⃑⃔⃕⃖⃗⃛⃜⃝⃞⃟⃠⃡⃢⃣" \o
    "⃤⃥⃦⃪⃫゙゚⃨⃬⃭⃮⃯⃧⃩⃰⳯⳰⳱ⷠⷡⷢⷣⷤⷥⷦⷧⷨⷩⷪⷫⷬⷭⷮⷯⷰⷱⷲⷳⷴⷵⷶⷷⷸⷹⷺⷻⷼⷽⷾⷿ゛゜ゝゞーヽヾꓸꓹꓺꓻꓼꓽꚜ" \o
    "ꚝꚞꚟ꛰꛱ꞈ꞉꞊ꟲꟳꟴꟸꟹ꣄ꣅ꣠꣡꣢꣣꣤꣥꣦꣧꣨꣩꣪꣫꣬꣭꣮꣯꣰꣱ꣿꦀꦁꦂ꦳ꦶꦷꦸꦹꦼꦽꧏꧥꧦꪴꪰꪲꪳꪷꪸꪾ꪿꫁ꫝꫬꫭꫳꫴ꫶ꯥꯨ" \o
    "꯭﮲﮳﮴﮵﮶﮷﮸﮹﮺﮻﮼﮽﮾﮿﯀﯁﯂﻿ﾞﾟ￣￹￺￻"

CapitalSigma == "Σ"
SmallSigma == "σ"
FinalSigma == "ς"

UpperChars == Chars(UpperLetters)
DigitChars == Chars(Digits)
WhitespaceChars == Chars(Whitespace)
CasedChars == Chars(Cased)
CaseIgnorableChars == Chars(CaseIgnorable)

LowerMap ==
    [c \in UpperChars |->
        LowerForms[CHOOSE k \in 1..Len(UpperLetters) : Unit(UpperLetters, k) = c]]

LowerChar(c) == IF c \in UpperChars THEN LowerMap[c] ELSE c

(* A capital sigma is in final position when a cased character comes       *)
(* before it and none after it, case-ignorable characters being skipped.   *)
(* cs is a sequence of characters.                                         *)
RECURSIVE CasedBefore(_, _)
CasedBefore(cs, i) ==
    IF i < 1 THEN FALSE
    ELSE IF cs[i] \in CaseIgnorableChars THEN CasedBefore(cs, i - 1)
    ELSE cs[i] \in CasedChars

RECURSIVE CasedAfter(_, _)
CasedAfter(cs, i) ==
    IF i > Len(cs) THEN FALSE
    ELSE IF cs[i] \in CaseIgnorableChars THEN CasedAfter(cs, i + 1)
    ELSE cs[i] \in CasedChars

LowerAt(cs, i) ==
    IF cs[i] = CapitalSigma
    THEN IF CasedBefore(cs, i - 1) /\ ~CasedAfter(cs, i + 1) THEN FinalSigma ELSE SmallSigma
    ELSE LowerChar(cs[i])

LowerAll[cs \in Seq(STRING)] == [i \in 1..Len(cs) |-> LowerAt(cs, i)]

(* str.lower: the characters of s.lower() *)
lower(s) == LowerAll[Characters(s)]

(* A whitespace character is a single unit and neither unit of a           *)
(* two-unit character is one, so that stripping goes unit by unit.         *)
RECURSIVE lstrip(_)
lstrip(s) ==
    IF s # "" /\ Unit(s, 1) \in WhitespaceChars THEN lstrip(Tail(s)) ELSE s

RECURSIVE rstrip(_)
rstrip(s) ==
    IF s # "" /\ Unit(s, Len(s)) \in WhitespaceChars
    THEN rstrip(SubSeq(s, 1, Len(s) - 1))
    ELSE s

strip(s) == rstrip(lstrip(s))

(* word in text *)
Contains(text, word) ==
    \E i \in 0..(Len(text) - Len(word)) : SubSeq(text, i + 1, i + Len(word)) = word

RECURSIVE join(_, _)
join(sep, strs) ==
    IF strs = <<>> THEN ""
    ELSE IF Len(strs) = 1 THEN strs[1]
    ELSE strs[1] \o sep \o join(sep, Tail(strs))

----------------------------------------------------------------------------
(* Regular expressions *)

Lit(w) == [t |-> "lit", w |-> Units(w)]
Cls(c) == [t |-> "cls", c |-> c]
Alt(rs) == [t |-> "alt", rs |-> rs]
Cat(rs) == [t |-> "cat", rs |-> rs]
Opt(r) == [t |-> "opt", r |-> r]
Star(r) == [t |-> "star", r |-> r]
Plus(r) == Cat(<<r, Star(r)>>)
Words(ws) == Alt([k \in 1..Len(ws) |-> Lit(ws[k])])

InClass(cls, c) ==
    CASE cls = "d" -> c \in DigitChars
      [] cls = "s" -> c \in WhitespaceChars
      [] cls = "." -> c # "\n"

RECURSIVE Ends(_, _, _), EndsFrom(_, _, _), AltEnds(_, _, _, _),
          CatEnds(_, _, _, _), StarEnds(_, _, _)

(* The positions at which a match of r that begins at position i of s can  *)
(* end, in the order in which the backtracking matcher tries them.         *)
Ends(r, s, i) ==
    CASE r.t = "lit" ->
           IF i + Len(r.w) <= Len(s) /\ SubSeq(s, i + 1, i + Len(r.w)) = r.w
           THEN <<i + Len(r.w)>> ELSE <<>>
      [] r.t = "cls" ->
           IF i < Len(s) /\ InClass(r.c, s[i + 1]) THEN <<i + 1>> ELSE <<>>
      [] r.t = "alt" -> AltEnds(r.rs, 1, s, i)
      [] r.t = "cat" -> CatEnds(r.rs, 1, s, <<i>>)
      [] r.t = "opt" -> Ends(r.r, s, i) \o <<i>>
      [] r.t = "star" -> StarEnds(r, s, i)

EndsFrom(r, s, starts) ==
    IF starts = <<>> THEN <<>>
    ELSE Ends(r, s, Head(starts)) \o EndsFrom(r, s, Tail(starts))

AltEnds(rs, k, s, i) ==
    IF k > Len(rs) THEN <<>> ELSE Ends(rs[k], s, i) \o AltEnds(rs, k + 1, s, i)

CatEnds(rs, k, s, starts) ==
    IF k > Len(rs) THEN starts ELSE CatEnds(rs, k + 1, s, EndsFrom(rs[k], s, starts))

StarEnds(r, s, i) ==
    EndsFrom(r, s, SelectSeq(Ends(r.r, s, i), LAMBDA e : e > i)) \o <<i>>

(* re.search(pattern, s) is not None *)
search(pattern, s) == \E i \in 0..Len(s) : Ends(pattern, s, i) # <<>>

(* len(re.findall(pattern, s)) for a pattern without capturing groups:     *)
(* the leftmost match at or after pos, then on from where it ended.        *)
RECURSIVE findall_count(_, _, _)
findall_count(pattern, s, pos) ==
    IF \A i \in pos..Len(s) : Ends(pattern, s, i) = <<>> THEN 0
    ELSE LET i == CHOOSE j \in pos..Len(s) :
                      /\ Ends(pattern, s, j) # <<>>
                      /\ \A h \in pos..(j - 1) : Ends(pattern, s, h) = <<>>
             e == Ends(pattern, s, i)[1]
         IN  1 + findall_count(pattern, s, IF e = i THEN i + 1 ELSE e)

----------------------------------------------------------------------------
(* The pattern catalog *)

D == Cls("d")
S1 == Plus(Cls("s"))
AnyChar == Cls(".")

hand_start_patterns == <<
    Cat(<<Words(<<"i", "we", "he", "she", "they", "villain", "hero", "player">>), S1,
          Words(<<"have", "had", "got dealt", "was dealt", "held", "pick up">>), S1,
          Alt(<<Lit("pocket"), Cat(<<Lit("hole card"), Opt(Lit("s"))>>)>>)>>),
    Cat(<<Words(<<"with", "holding", "dealt">>), S1,
          Alt(<<Lit("pocket"), Lit("ace"), Lit("king"), Lit("queen"), Lit("jack"),
                Plus(D)>>)>>),
    Cat(<<Words(<<"preflop", "pre-flop">>), Star(AnyChar),
          Alt(<<Lit("raise"), Lit("call"), Lit("fold"),
                Cat(<<Lit("all"), Opt(AnyChar), Lit("in")>>)>>)>>),
    Cat(<<Words(<<"flop", "turn", "river">>), S1,
          Alt(<<Cat(<<Lit("come"), Opt(Lit("s"))>>), Cat(<<Lit("bring"), Opt(Lit("s"))>>),
                Lit("is"), Lit("was")>>)>>),
    Cat(<<Lit("board"), S1,
          Alt(<<Cat(<<Lit("come"), Opt(Lit("s"))>>), Lit("is"), Lit("was"),
                Cat(<<Lit("read"), Opt(Lit("s"))>>)>>)>>),
    Cat(<<Lit("hand"), S1, Words(<<"analysis", "breakdown", "review", "discussion">>)>>),
    Cat(<<Words(<<"let's", "we'll", "i'll">>), S1,
          Words(<<"talk about", "discuss", "analyze", "break down", "look at">>), S1,
          Words(<<"this", "a", "the">>), S1, Lit("hand")>>)
>>

Suit == Opt(Words(<<"s", "h", "d", "c">>))
Rank == Alt(<<Lit("A"), Lit("K"), Lit("Q"), Lit("J"), Lit("T"), D>>)

card_patterns == <<
    Cat(<<Alt(<<Lit("ace"), Lit("king"), Lit("queen"), Lit("jack"), Plus(D)>>),
          Opt(Cat(<<S1, Lit("of"), S1,
                    Words(<<"hearts", "diamonds", "clubs", "spades">>)>>))>>),
    Cat(<<Lit("pocket"), S1,
          Words(<<"aces", "kings", "queens", "jacks", "tens", "nines", "eights",
                  "sevens", "sixes", "fives", "fours", "threes", "twos", "deuces">>)>>),
    Cat(<<Words(<<"suited", "offsuit">>), S1, Words(<<"ace", "king", "queen", "jack">>)>>),
    Cat(<<Rank, Suit, Star(Cls("s")), Rank, Suit>>)
>>

action_patterns == <<
    Cat(<<Alt(<<Cat(<<Lit("raise"), Opt(Lit("s"))>>), Cat(<<Lit("call"), Opt(Lit("s"))>>),
                Cat(<<Lit("fold"), Opt(Lit("s"))>>), Cat(<<Lit("check"), Opt(Lit("s"))>>),
                Cat(<<Lit("bet"), Opt(Lit("s"))>>),
                Cat(<<Lit("all"), Opt(AnyChar), Lit("in")>>),
                Cat(<<Lit("shove"), Opt(Lit("s"))>>), Cat(<<Lit("jam"), Opt(Lit("s"))>>)>>),
          S1, Opt(Cat(<<Lit("to"), S1>>)), Opt(Lit("$")), Plus(D)>>),
    Cat(<<Words(<<"three", "3">>), Opt(AnyChar), Lit("bet"), Opt(Words(<<"s", "ting">>))>>),
    Cat(<<Words(<<"four", "4">>), Opt(AnyChar), Lit("bet"), Opt(Words(<<"s", "ting">>))>>),
    Cat(<<Lit("check"), Opt(AnyChar), Lit("raise")>>),
    Alt(<<Cat(<<Lit("continuation"), S1, Lit("bet")>>),
          Cat(<<Lit("c"), Opt(AnyChar), Lit("bet")>>)>>)
>>

context_words == <<"preflop", "flop", "turn", "river", "showdown">>

----------------------------------------------------------------------------
(* Scoring of one segment *)

RECURSIVE CountSearch(_, _, _)
CountSearch(patterns, k, s) ==
    IF k > Len(patterns) THEN 0
    ELSE (IF search(patterns[k], s) THEN 1 ELSE 0) + CountSearch(patterns, k + 1, s)

RECURSIVE CountFindall(_, _, _)
CountFindall(patterns, k, s) ==
    IF k > Len(patterns) THEN 0
    ELSE findall_count(patterns[k], s, 0) + CountFindall(patterns, k + 1, s)

HandStartWeight == 2

hand_start_score(segment_lower) ==
    HandStartWeight * CountSearch(hand_start_patterns, 1, segment_lower)

card_score(segment_lower) == CountFindall(card_patterns, 1, segment_lower)

action_score(segment_lower) == CountSearch(action_patterns, 1, segment_lower)

context_score(context_text) ==
    IF \E k \in 1..Len(context_words) : Contains(context_text, Units(context_words[k]))
    THEN 1 ELSE 0

----------------------------------------------------------------------------
(* detect_hands *)

ConfidenceScale == 8
MinTotal == 3

(* min(total_score / 8.0, 1.0), in eighths: a division by 8 is exact in    *)
(* binary floating point, so the confidence is a whole number of eighths.  *)
(* Faulty variant: the division without the cap at 1.0 *)
confidence_uncapped(total_score) == total_score

confidence(total_score) ==
    IF total_score <= ConfidenceScale THEN total_score ELSE ConfidenceScale

(* Faulty variant: the total alone decides *)
GateOnTotalOnly(total_score, cards, hand_start) == total_score >= MinTotal

PassesGate(total_score, cards, hand_start) ==
    total_score >= MinTotal /\ (cards >= 1 \/ hand_start >= 1)

NoError == [type |-> "", key |-> ""]
KeyError(key) == [type |-> "KeyError", key |-> key]

Has(segment, key) == key \in DOMAIN segment

(* Faulty variant: the window joined without a separator *)
NoSeparator == ""

Separator == " "

(* Faulty variant: the window reaches one segment further *)
context_window_wide(segments, i) ==
    (IF i > 1 THEN <<segments[i - 1].text>> ELSE <<>>)
    \o <<segments[i].text>>
    \o (IF i < Len(segments) THEN <<segments[i + 1].text>> ELSE <<>>)
    \o (IF i + 1 < Len(segments) THEN <<segments[i + 2].text>> ELSE <<>>)

(* The texts of segments i-1 (if any), i and i+1 (if any); i counts from 1 *)
context_window(segments, i) ==
    (IF i > 1 THEN <<segments[i - 1].text>> ELSE <<>>)
    \o <<segments[i].text>>
    \o (IF i < Len(segments) THEN <<segments[i + 1].text>> ELSE <<>>)

(* Faulty variant: the list of the previous call is kept and appended to   *)
LeftoverList ==
    [k \in 1..Len(hands_detected) |-> [idx |-> origin[k], hand |-> hands_detected[k]]]

(* The list a call starts from *)
EmptyList == <<>>

(* The three scores the loop computes from the text of the segment alone   *)
segment_scores(segment_text) ==
    LET segment_lower == lower(segment_text)
    IN  [hand_start |-> hand_start_score(segment_lower),
         cards |-> card_score(segment_lower),
         actions |-> action_score(segment_lower)]

(* The score the loop computes from the context window *)
window_score(window) == context_score(lower(join(Separator, window)))

(* The texts of the segments.  In the last one a character beyond U+FFFF   *)
(* stands between "three" and "bet", where the pattern allows for one      *)
(* character of any kind.                                                  *)
SegmentTexts == {"",
                 "I had pocket aces on the Flop",
                 "bet 1 2 3 4 5 6 7 8 9",
                 "talking king of the show",
                 "down to a three𰂀bet four bet check raise"}

(* The texts of the segments that lack a field *)
MalformedTexts == {"I had pocket aces on the Flop",
                   "down to a three bet four bet check raise"}

Texts == SegmentTexts \cup MalformedTexts

(* The scores of the texts and windows the inputs are drawn from, computed *)
(* once; any other text or window is scored on the spot.                   *)
ScoreMemo == [t \in Texts |-> segment_scores(t)]
ContextMemo1 == [a \in Texts |-> window_score(<<a>>)]
ContextMemo2 == [a \in Texts |-> [b \in Texts |-> window_score(<<a, b>>)]]
ContextMemo3 ==
    [a \in Texts |-> [b \in Texts |-> [c \in Texts |-> window_score(<<a, b, c>>)]]]
ScoresOf(segment_text) ==
    IF segment_text \in Texts THEN ScoreMemo[segment_text] ELSE segment_scores(segment_text)
ContextOf(window) ==
    IF Len(window) > 3 \/ \E k \in 1..Len(window) : window[k] \notin Texts
    THEN window_score(window)
    ELSE CASE Len(window) = 1 -> ContextMemo1[window[1]]
           [] Len(window) = 2 -> ContextMemo2[window[1]][window[2]]
           [] Len(window) = 3 -> ContextMemo3[window[1]][window[2]][window[3]]

(* The record appended for a segment that passed the gate *)
hand_record(segment, total_score, sc) ==
    [timestamp |-> segment.start,
     duration |-> segment.end - segment.start,
     text |-> segment.text,
     confidence |-> confidence(total_score),
     scores |-> sc]

(* One iteration of the loop over the segments.  acc.found holds the       *)
(* candidates appended so far, each with the index of its segment.         *)
LoopBody(segments, i, acc) ==
    LET segment == segments[i] IN
    IF ~Has(segment, "text") THEN [acc EXCEPT !.error = KeyError("text")]
    ELSE IF i < Len(segments) /\ ~Has(segments[i + 1], "text")
    THEN [acc EXCEPT !.error = KeyError("text")]
    ELSE
    LET segment_text == segment.text
        own == ScoresOf(segment_text)
        cx == ContextOf(context_window(segments, i))
        total_score == own.hand_start + own.cards + own.actions + cx
        sc == [hand_start |-> own.hand_start, cards |-> own.cards,
               actions |-> own.actions, context |-> cx]
        scored == [acc EXCEPT !.scores = Append(@, sc)]
    IN  IF ~PassesGate(total_score, own.cards, own.hand_start) THEN scored
        ELSE IF ~Has(segment, "start") THEN [scored EXCEPT !.error = KeyError("start")]
        ELSE IF ~Has(segment, "end") THEN [scored EXCEPT !.error = KeyError("end")]
        ELSE [scored EXCEPT !.found =
                 Append(@, [idx |-> i, hand |-> hand_record(segment, total_score, sc)])]

RECURSIVE Loop(_, _, _)
Loop(segments, i, acc) ==
    IF i > Len(segments) \/ acc.error # NoError THEN acc
    ELSE Loop(segments, i + 1, LoopBody(segments, i, acc))

(* list.sort(key=confidence, reverse=True): element x goes behind every    *)
(* element already placed whose confidence is at least its own.            *)
(* Faulty variant: equal confidences change places *)
GoesBehindStrict(placed, x) == placed.hand.confidence > x.hand.confidence

GoesBehind(placed, x) == placed.hand.confidence >= x.hand.confidence

RECURSIVE Insert(_, _)
Insert(sorted, x) ==
    IF sorted = <<>> THEN <<x>>
    ELSE IF GoesBehind(Head(sorted), x) THEN <<Head(sorted)>> \o Insert(Tail(sorted), x)
    ELSE <<x>> \o sorted

(* Faulty variant: a candidate equal to one already placed is dropped      *)
RECURSIVE sort_unique(_)
sort_unique(xs) ==
    IF xs = <<>> THEN <<>>
    ELSE LET rest == sort_unique(SubSeq(xs, 1, Len(xs) - 1))
             x == xs[Len(xs)]
         IN  IF \E k \in 1..Len(rest) : rest[k].hand = x.hand THEN rest ELSE Insert(rest, x)

RECURSIVE sort(_)
sort(xs) == IF xs = <<>> THEN <<>> ELSE Insert(sort(SubSeq(xs, 1, Len(xs) - 1)), xs[Len(xs)])

(* The outcome of detect_hands(transcript): the loop, then the sort *)
detect_hands(transcript) ==
    LET acc == Loop(transcript.segments, 1,
                    [found |-> EmptyList, scores |-> <<>>, error |-> NoError])
    IN  [acc EXCEPT !.found = IF acc.error = NoError THEN sort(acc.found) ELSE <<>>]

----------------------------------------------------------------------------
(* generate_report *)

RECURSIVE LastIndexOf(_, _)
LastIndexOf(s, c) ==
    IF s = "" THEN 0
    ELSE IF Unit(s, Len(s)) = c THEN Len(s)
    ELSE LastIndexOf(SubSeq(s, 1, Len(s) - 1), c)

(* Path(p) keeps a root and the components of p between slashes, those     *)
(* that are empty or "." being dropped; two leading slashes, and only two, *)
(* are kept as they are.  A slash and a dot are single units and neither   *)
(* unit of a two-unit character is one, so that paths are taken apart      *)
(* unit by unit.                                                           *)
RECURSIVE Split(_, _, _)
Split(s, i, part) ==
    IF i > Len(s) THEN <<part>>
    ELSE IF Unit(s, i) = "/" THEN <<part>> \o Split(s, i + 1, "")
    ELSE Split(s, i + 1, part \o Unit(s, i))

PathRoot(p) ==
    IF p = "" \/ Unit(p, 1) # "/" THEN ""
    ELSE IF Len(p) >= 2 /\ Unit(p, 2) = "/" /\ (Len(p) = 2 \/ Unit(p, 3) # "/") THEN "//"
    ELSE "/"

PathParts(p) == SelectSeq(Split(p, 1, ""), LAMBDA part : part # "" /\ part # ".")

(* str(path) *)
PathStr(root, parts) == IF root = "" /\ parts = <<>> THEN "." ELSE root \o join("/", parts)

(* str(Path(p).parent), Path(p).name and Path(p).stem *)
PathParent(p) ==
    LET parts == PathParts(p)
    IN  PathStr(PathRoot(p), IF parts = <<>> THEN parts ELSE SubSeq(parts, 1, Len(parts) - 1))
PathName(p) == LET parts == PathParts(p) IN IF parts = <<>> THEN "" ELSE parts[Len(parts)]
PathStem(p) ==
    LET name == PathName(p)
        dot == LastIndexOf(name, ".")
    IN  IF dot <= 1 \/ dot = Len(name) THEN name ELSE SubSeq(name, 1, dot - 1)

(* str(Path(parent) / name) for a name that is a single component *)
PathJoin(parent, name) == PathStr(PathRoot(parent), PathParts(parent) \o <<name>>)

ReportSuffix == "_poker_hands.md"

(* The file generate_report writes: output_file, or when that is None (""  *)
(* here) or empty, the default beside the audio file.                      *)
output_path(transcript, output_file) ==
    IF output_file = ""
    THEN PathJoin(PathParent(transcript.file), PathStem(transcript.file) \o ReportSuffix)
    ELSE output_file

RECURSIVE Pow10(_)
Pow10(n) == IF n = 0 THEN 1 ELSE 10 * Pow10(n - 1)

RECURSIVE ZeroPad(_, _)
ZeroPad(digits, width) == IF Len(digits) >= width THEN digits ELSE ZeroPad("0" \o digits, width)

MantissaBits == 53

(* n and d doubled until d <= n < 2d: the quotient n/d then lies in [1, 2) *)
RECURSIVE Normalised(_, _)
Normalised(n, d) ==
    IF n < d THEN Normalised(2 * n, d)
    ELSE IF n >= 2 * d THEN Normalised(n, 2 * d)
    ELSE [n |-> n, d |-> d]

(* base^exp modulo d, by repeated squaring *)
RECURSIVE PowMod(_, _, _)
PowMod(base, exp, d) ==
    IF exp = 0 THEN 1 % d
    ELSE IF exp % 2 = 0 THEN (PowMod(base, exp \div 2, d) * PowMod(base, exp \div 2, d)) % d
    ELSE (base * PowMod(base, exp - 1, d)) % d

(* Long division of n by d, where d <= n < 2d: after the leading 1 the     *)
(* remainder is n - d, and after k more bits of the quotient it is         *)
(* (n - d) * 2^k modulo d.  bit is the last of the MantissaBits bits and r *)
(* the remainder it leaves.  (For d below 2^15: the products stay within   *)
(* the 32-bit integers of the checker.)                                    *)
Mantissa(n, d) ==
    LET before == ((n - d) * PowMod(2, MantissaBits - 2, d)) % d
    IN  [r |-> (2 * before) % d, bit |-> IF 2 * before >= d THEN 1 ELSE 0]

(* Where the float num / den lies: -1 below the exact quotient, 0 on it, 1 *)
(* above it.  The division rounds to the nearest float, a tie to the one   *)
(* with an even mantissa.                                                  *)
FloatError(num, den) ==
    IF num = 0 THEN 0
    ELSE LET q == Normalised(num, den)
             m == Mantissa(q.n, q.d)
         IN  IF m.r = 0 THEN 0
             ELSE IF 2 * m.r < q.d THEN -1
             ELSE IF 2 * m.r > q.d THEN 1
             ELSE IF m.bit = 0 THEN -1 ELSE 1

(* f"{num/den:.{places}f}" for num >= 0, den > 0: the multiple of          *)
(* 10^-places nearest to the float num / den, a tie going to the even one. *)
(* The float is on a tie only when the exact quotient is and the division  *)
(* is exact; a quotient on a tie that the division rounds is printed on    *)
(* the side the float fell.                                                *)
FormatFixed(num, den, places) ==
    LET n == num * Pow10(places)
        q == n \div den
        r == n % den
        up == IF 2 * r # den THEN 2 * r > den
              ELSE IF FloatError(num, den) = 0 THEN q % 2 = 1
              ELSE FloatError(num, den) > 0
        rounded == IF up THEN q + 1 ELSE q
    IN  ToString(rounded \div Pow10(places)) \o "." \o
        ZeroPad(ToString(rounded % Pow10(places)), places)

RECURSIVE SumConfidence(_)
SumConfidence(hands) ==
    IF hands = <<>> THEN 0 ELSE Head(hands).confidence + SumConfidence(Tail(hands))

(* Faulty variant: the mean taken without the test for an empty list       *)
avg_confidence_unguarded(hands) ==
    [num |-> SumConfidence(hands), den |-> ConfidenceScale * Len(hands)]

(* avg_confidence as a fraction: 0.00, or with hands the sum over the count *)
avg_confidence(hands) ==
    IF hands # <<>>
    THEN [num |-> SumConfidence(hands), den |-> ConfidenceScale * Len(hands)]
    ELSE [num |-> 0, den |-> 1]

SecondsPerMinute == 60

HandEntry(i, hand) ==
    "### Hand " \o ToString(i) \o "\n" \o
    "**Timestamp:** " \o ToString(hand.timestamp \div SecondsPerMinute) \o ":" \o
        ZeroPad(ToString(hand.timestamp % SecondsPerMinute), 2) \o "\n" \o
    "**Confidence:** " \o FormatFixed(hand.confidence, ConfidenceScale, 2) \o "\n" \o
    "**Text:** " \o strip(hand.text) \o "\n" \o
    "\n---\n\n"

RECURSIVE HandEntries(_, _)
HandEntries(hands, i) ==
    IF i > Len(hands) THEN "" ELSE HandEntry(i, hands[i]) \o HandEntries(hands, i + 1)

ReportHeader(transcript, count, avg) ==
    "# Poker Hands Analysis\n        \n" \o
    "**Source:** " \o transcript.file \o "\n" \o
    "**Duration:** " \o FormatFixed(transcript.duration, 1, 1) \o " seconds\n" \o
    "**Language:** " \o transcript.language \o "\n" \o
    "**Processed:** " \o transcript.processed_at \o "\n" \o
    "\n## Summary\n" \o
    "- **Total hands detected:** " \o ToString(count) \o "\n" \o
    "- **Average confidence:** " \o FormatFixed(avg.num, avg.den, 2) \o "\n" \o
    "\n## Detected Hands\n\n"

ZeroDivisionError == [type |-> "ZeroDivisionError", key |-> ""]

(* The text generate_report builds, or the error its division raises       *)
report_content(transcript, hands) ==
    LET avg == avg_confidence(hands) IN
    IF avg.den = 0 THEN [error |-> ZeroDivisionError, text |-> ""]
    ELSE [error |-> NoError,
          text |-> ReportHeader(transcript, Len(hands), avg) \o HandEntries(hands, 1)]

NoFile == [exists |-> FALSE, content |-> ""]

(* open(path, 'w') and write(content) *)
WriteFile(fs, path, content) == [fs EXCEPT ![path] = [exists |-> TRUE, content |-> content]]

----------------------------------------------------------------------------
(* Inputs *)

MaxSegments == 3
MaxMalformedSegments == 2
MaxSessionSegments == 2

(* start and end of a segment, in whole seconds *)
Spans == {<<0, 5>>, <<65, 72>>}

Segments == {[text |-> t, start |-> sp[1], end |-> sp[2]] : t \in SegmentTexts, sp \in Spans}

Fields == {"text", "start", "end"}

Without(segment, key) == [k \in (DOMAIN segment) \ {key} |-> segment[k]]

MalformedSegments ==
    {Without([text |-> t, start |-> 0, end |-> 5], key) :
        t \in MalformedTexts, key \in Fields}

SeqsUpTo(S, n) == UNION {[1..m -> S] : m \in 0..n}

WellFormed(segments) == \A i \in 1..Len(segments) : Fields \subseteq DOMAIN segments[i]

SegmentLists ==
    SeqsUpTo(Segments, MaxSegments)
    \cup {sl \in SeqsUpTo(Segments \cup MalformedSegments, MaxMalformedSegments) :
             ~WellFormed(sl)}

SessionSegments ==
    {[text |-> "I had pocket aces on the Flop", start |-> 0, end |-> 5],
     [text |-> "bet 1 2 3 4 5 6 7 8 9", start |-> 65, end |-> 72]}

SessionSegmentLists == SeqsUpTo(SessionSegments, MaxSessionSegments)

Transcript(segments) ==
    [file |-> "out/ep1.mp3", duration |-> 72, language |-> "en",
     processed_at |-> "2024-01-01T00:00:00", segments |-> segments]

(* The episodes of a feed: the directory of each and the audio file        *)
(* downloaded into it.                                                     *)
FirstEpisode == [episode_dir |-> "out", audio_path |-> "out/ep1.mp3"]
LaterEpisode == [episode_dir |-> "out", audio_path |-> "out/ep2.mp3"]

(* The transcript of the later episode is loaded from the file an earlier  *)
(* run left in its directory, and names the audio file of that run, kept   *)
(* in another directory then; the transcript of the first episode is made  *)
(* now and names its audio file. The two differ in everything but,         *)
(* possibly, the segments.                                                 *)
NextEpisode(segments) ==
    [file |-> "old/ep2.mp3", duration |-> 130, language |-> "en",
     processed_at |-> "2024-01-02T00:00:00", segments |-> segments]

OutputFiles == {"", "out/report.md"}

(* The files a report can go to.  Their directory exists: the callers      *)
(* create it, or read the audio file from it, before the report is written. *)
Paths == {"out/ep1_poker_hands.md", "out/ep2_poker_hands.md", "out/report.md"}

NotCalled == [called |-> FALSE, file |-> "", segments |-> <<>>, hands |-> <<>>,
              error |-> NoError]

----------------------------------------------------------------------------
(* The state machine *)

InitWith(transcripts) ==
    /\ transcript_data \in transcripts
    /\ status = "idle"
    /\ hands_detected = <<>>
    /\ error = NoError
    /\ scores = <<>>
    /\ origin = <<>>
    /\ files = [p \in Paths |-> NoFile]
    /\ report_file = ""
    /\ first_call = NotCalled
    /\ episode = FirstEpisode

Init == InitWith({Transcript(sl) : sl \in SegmentLists})

InitSession == InitWith({Transcript(sl) : sl \in SessionSegmentLists})

(* hands_detected = analyzer.detect_hands(transcript_data) *)
DetectHands ==
    \E out \in {detect_hands(transcript_data)} :
    \E hands \in {[k \in 1..Len(out.found) |-> out.found[k].hand]} :
    /\ status' = IF out.error = NoError THEN "returned" ELSE "raised"
    /\ hands_detected' = hands
    /\ origin' = [k \in 1..Len(out.found) |-> out.found[k].idx]
    /\ scores' = out.scores
    /\ error' = out.error
    /\ first_call' =
          IF first_call.called THEN first_call
          ELSE [called |-> TRUE, file |-> transcript_data.file,
                segments |-> transcript_data.segments, hands |-> hands,
                error |-> out.error]
    /\ UNCHANGED <<transcript_data, files, report_file, episode>>

(* report_file = analyzer.generate_report(transcript_data, hands_detected, *)
(* output_file), called once detect_hands has returned                     *)
GenerateReport(output_file) ==
    /\ status = "returned"
    /\ \E report \in {report_content(transcript_data, hands_detected)} :
       \E path \in {output_path(transcript_data, output_file)} :
          IF report.error # NoError
          THEN /\ error' = report.error
               /\ UNCHANGED <<files, report_file>>
          ELSE /\ files' = WriteFile(files, path, report.text)
               /\ report_file' = path
               /\ error' = NoError
    /\ UNCHANGED <<transcript_data, status, hands_detected, scores, origin, first_call,
                   episode>>

(* process_rss_feed turns to the next episode and loads its                *)
(* transcript; what the calls on the previous one returned stays where it  *)
(* is until it is overwritten.                                             *)
LoadTranscript ==
    /\ episode' = LaterEpisode
    /\ \E sl \in SessionSegmentLists : transcript_data' = NextEpisode(sl)
    /\ status' = "idle"
    /\ UNCHANGED <<hands_detected, error, scores, origin, files, report_file, first_call>>

GenerateReportStep == \E output_file \in OutputFiles : GenerateReport(output_file)

(* process_rss_feed names the report file itself: in the directory of the  *)
(* episode, after the stem of the name of its audio file, whatever file    *)
(* the transcript names.                                                   *)
EpisodeReportFile(ep) ==
    PathJoin(ep.episode_dir, PathStem(ep.audio_path) \o ReportSuffix)

GenerateEpisodeReport == GenerateReport(EpisodeReportFile(episode))

Next ==
    \/ DetectHands
    \/ GenerateReportStep

NextSession ==
    \/ LoadTranscript
    \/ DetectHands
    \/ GenerateEpisodeReport

Spec == Init /\ [][Next]_vars

SpecSession == InitSession /\ [][NextSession]_vars

----------------------------------------------------------------------------
(* Properties *)

Returned == status = "returned"
segs == transcript_data.segments
NumSegments == Len(segs)
Total(sc) == sc.hand_start + sc.cards + sc.actions + sc.context
IsCandidate(i) == \E k \in 1..Len(origin) : origin[k] = i

HasKeyword(text) == \E k \in 1..Len(context_words) : Contains(lower(text), Units(context_words[k]))
KeywordMemo == [t \in Texts |-> HasKeyword(t)]
Keyword(text) == IF text \in Texts THEN KeywordMemo[text] ELSE HasKeyword(text)
KeywordNear(i) ==
    \E j \in {i - 1, i, i + 1} : j \in 1..NumSegments /\ Keyword(segs[j].text)

(* C1: a segment is a candidate if and only if total >= 3 and (cards >= 1  *)
(* or handStart >= 1), total being the sum of the four scores; a segment   *)
(* with cards = 0 and handStart = 0 is never a candidate.                  *)
ThmC1_AcceptanceGate ==
    Returned =>
        /\ Len(scores) = NumSegments
        /\ \A i \in 1..NumSegments :
              /\ IsCandidate(i) <=>
                    (Total(scores[i]) >= 3 /\
                     (scores[i].cards >= 1 \/ scores[i].hand_start >= 1))
              /\ (scores[i].cards = 0 /\ scores[i].hand_start = 0) => ~IsCandidate(i)

WitC1_ActionsOnlyRejected ==
    /\ Returned
    /\ \E i \in 1..NumSegments :
          Total(scores[i]) >= 3 /\ scores[i].cards = 0 /\ scores[i].hand_start = 0
          /\ ~IsCandidate(i)
    /\ \E i \in 1..NumSegments :
          Total(scores[i]) < 3 /\ scores[i].cards >= 1 /\ ~IsCandidate(i)
    /\ \E i \in 1..NumSegments : IsCandidate(i)

(* C2: the returned list is sorted by confidence, highest first, and two   *)
(* candidates of equal confidence keep the order of their segments.        *)
ThmC2_SortedStable ==
    Returned =>
        \A j, k \in 1..Len(hands_detected) :
            j < k =>
                /\ hands_detected[j].confidence >= hands_detected[k].confidence
                /\ hands_detected[j].confidence = hands_detected[k].confidence
                      => origin[j] < origin[k]

WitC2_TieBehindLaterSegment ==
    /\ Returned
    /\ origin = <<3, 1, 2>>
    /\ hands_detected[1].confidence > hands_detected[2].confidence
    /\ hands_detected[2].confidence = hands_detected[3].confidence

(* C3: the confidence of every candidate is min(total / 8, 1): it lies in  *)
(* [0, 1] and is 1 whenever total >= 8.  (confidence is held in eighths.)  *)
ThmC3_Confidence ==
    Returned =>
        \A k \in 1..Len(hands_detected) :
            LET c == hands_detected[k].confidence
                total == Total(hands_detected[k].scores)
            IN  /\ c = (IF total <= 8 THEN total ELSE 8)
                /\ 0 <= c /\ c <= 8
                /\ total >= 8 => c = 8

WitC3_Saturated ==
    /\ Returned
    /\ \E k \in 1..Len(hands_detected) :
          Total(hands_detected[k].scores) >= 12 /\ hands_detected[k].confidence = 8
    /\ \E k \in 1..Len(hands_detected) :
          Total(hands_detected[k].scores) < 8
          /\ hands_detected[k].confidence = Total(hands_detected[k].scores)

(* C4: when a segment lacks text, start or end, detect_hands raises an     *)
(* error naming a missing field and returns no list, also when that        *)
(* segment scores below the acceptance gate.                               *)
CexC4_FailsOnAnyMissingField ==
    (status # "idle" /\ ~WellFormed(segs)) =>
        /\ status = "raised"
        /\ error.type = "KeyError"
        /\ \E i \in 1..NumSegments : error.key \in Fields \ DOMAIN segs[i]
        /\ hands_detected = <<>>

(* C5: generate_report called with an empty list raises no error and       *)
(* writes a report that states zero hands and an average confidence of     *)
(* 0.00 and has no per-hand entry.                                         *)
ThmC5_EmptyReport ==
    [][(hands_detected = <<>> /\ GenerateReportStep) =>
          /\ error' = NoError
          /\ report_file' \in Paths
          /\ files'[report_file'].exists
          /\ Contains(files'[report_file'].content, "- **Total hands detected:** 0\n")
          /\ Contains(files'[report_file'].content, "- **Average confidence:** 0.00\n")
          /\ ~Contains(files'[report_file'].content, "### Hand")]_vars

WitC5_EmptyReportWritten ==
    /\ Returned /\ hands_detected = <<>> /\ NumSegments >= 2
    /\ report_file \in Paths /\ files[report_file].exists
    /\ Contains(files[report_file].content, "## Detected Hands\n\n")

(* C6: generate_report leaves durable storage unchanged and its result is  *)
(* the report text.                                                        *)
CexC6_NoStorageEffect ==
    [][GenerateReportStep =>
          /\ files' = files
          /\ report_file' = report_content(transcript_data, hands_detected).text]_vars

(* C7: a detect_hands call on a transcript with the segments of the        *)
(* first call returns what the first call returned (the same candidates    *)
(* with the same scores in the same order, or the same error), whatever    *)
(* the rest of the transcript holds and whatever was called in between.    *)
ThmC7_Idempotent ==
    (first_call.called /\ status # "idle" /\ segs = first_call.segments) =>
        /\ hands_detected = first_call.hands
        /\ error = first_call.error

(* The first call was on the first episode; since then a call on other     *)
(* segments found nothing and its report was written; the call on the      *)
(* segments of the first call, in a transcript loaded for the later        *)
(* episode that names a file of another directory, returns two             *)
(* candidates, the later segment first.                                    *)
WitC7_CalledAgainAfterOthers ==
    /\ first_call.called
    /\ Returned /\ segs = first_call.segments
    /\ transcript_data.file # first_call.file
    /\ transcript_data.file # episode.audio_path
    /\ report_file = "out/ep2_poker_hands.md"
    /\ origin = <<2, 1>>
    /\ hands_detected[1].confidence > hands_detected[2].confidence
    /\ \E path \in Paths :
          /\ files[path].exists
          /\ Contains(files[path].content, "- **Total hands detected:** 0\n")

(* C8 as claimed: a segment with empty text has all four scores 0 and is   *)
(* never a candidate.                                                      *)
CexC8_EmptyTextAllZero ==
    Returned =>
        \A i \in 1..NumSegments :
            segs[i].text = "" =>
                /\ scores[i] = [hand_start |-> 0, cards |-> 0, actions |-> 0, context |-> 0]
                /\ ~IsCandidate(i)

(* C8 as amended: a segment with empty text has handStart = cards =        *)
(* actions = 0 and is never a candidate; its context score is 1 when a     *)
(* neighbouring segment holds a context keyword and 0 otherwise.           *)
ThmC8_EmptyText ==
    Returned =>
        \A i \in 1..NumSegments :
            segs[i].text = "" =>
                /\ scores[i].hand_start = 0 /\ scores[i].cards = 0 /\ scores[i].actions = 0
                /\ scores[i].context = (IF KeywordNear(i) THEN 1 ELSE 0)
                /\ ~IsCandidate(i)

WitC8_EmptyTextWithContext ==
    /\ Returned
    /\ \E i \in 1..NumSegments :
          segs[i].text = "" /\ scores[i].context = 1 /\ ~IsCandidate(i)
    /\ \E i \in 1..NumSegments :
          segs[i].text = "" /\ scores[i].context = 0

(* C9: the context score of segment i is 1 when a keyword occurs in the    *)
(* text of segment i-1, i or i+1 (those that exist) and 0 otherwise.       *)
ThmC9_ContextWindow ==
    Returned =>
        \A i \in 1..NumSegments :
            scores[i].context = (IF KeywordNear(i) THEN 1 ELSE 0)

WitC9_DistanceTwoIgnored ==
    /\ Returned /\ NumSegments = 3
    /\ Keyword(segs[3].text) /\ ~Keyword(segs[2].text) /\ ~Keyword(segs[1].text)
    /\ scores[1].context = 0 /\ scores[2].context = 1 /\ scores[3].context = 1
    /\ segs[1].text = "talking king of the show"
    /\ segs[2].text = "down to a three𰂀bet four bet check raise"
    /\ scores[2].actions = 3

(* C10: the returned list holds exactly one candidate for every segment    *)
(* that passes the gate and none for any other, each with the segment's    *)
(* start, end - start and text; nothing is merged, dropped or truncated.   *)
ThmC10_OneCandidatePerSegment ==
    Returned =>
        /\ Len(origin) = Len(hands_detected)
        /\ Len(hands_detected) <= NumSegments
        /\ \A j, k \in 1..Len(origin) : j # k => origin[j] # origin[k]
        /\ {origin[k] : k \in 1..Len(origin)} =
              {i \in 1..NumSegments :
                  Total(scores[i]) >= 3 /\
                  (scores[i].cards >= 1 \/ scores[i].hand_start >= 1)}
        /\ \A k \in 1..Len(hands_detected) :
              LET segment == segs[origin[k]]
                  hand == hands_detected[k]
              IN  /\ hand.timestamp = segment.start
                  /\ hand.duration = segment.end - segment.start
                  /\ hand.text = segment.text

WitC10_IdenticalSegmentsKept ==
    /\ Returned /\ NumSegments = 3 /\ Len(hands_detected) = 2
    /\ hands_detected[1] = hands_detected[2]
    /\ hands_detected[1].timestamp = 65 /\ hands_detected[1].duration = 7
====
